---- MODULE Spec2Model ----
(***************************************************************************)
(* Model of order_fulfillment/main.go: the order-fulfillment MIP.           *)
(*                                                                         *)
(* solver() generates the assignment universe, builds the MIP model m,      *)
(* configures and calls the external "highs" solver, and format() turns    *)
(* the solution into the Output record.  float64 values are modelled as    *)
(* exact rationals <<numerator, denominator>>; the external solver is       *)
(* modelled by its contract: it returns an error, a solution without       *)
(* values, or a point that satisfies every constraint of m.                *)
(***************************************************************************)
EXTENDS Integers, Sequences, FiniteSets, TLC

(***************************************************************************)
(* Rational arithmetic (float64 fields of the input, coefficients, values). *)
(***************************************************************************)
Abs(n) == IF n < 0 THEN -n ELSE n

RECURSIVE GCD(_, _)
GCD(a, b) == IF b = 0 THEN a ELSE GCD(b, a % b)

RNorm(r) ==
    LET g == GCD(Abs(r[1]), r[2])
    IN  IF r[1] = 0 THEN <<0, 1>> ELSE <<r[1] \div g, r[2] \div g>>

R(n) == <<n, 1>>
RAdd(a, b) == RNorm(<<a[1] * b[2] + b[1] * a[2], a[2] * b[2]>>)
RMul(a, b) == RNorm(<<a[1] * b[1], a[2] * b[2]>>)
RNeg(a) == <<-a[1], a[2]>>
\* a / b for b # 0 (the sign is kept in the numerator)
RDiv(a, b) ==
    IF b[1] > 0 THEN RNorm(<<a[1] * b[2], a[2] * b[1]>>)
    ELSE RNorm(<<-(a[1] * b[2]), a[2] * (-b[1])>>)
REq(a, b) == a[1] * b[2] = b[1] * a[2]
RLe(a, b) == a[1] * b[2] <= b[1] * a[2]
RLt(a, b) == a[1] * b[2] < b[1] * a[2]

RECURSIVE RSum(_)
\* sum of a sequence of rationals
RSum(s) == IF s = <<>> THEN R(0) ELSE RAdd(Head(s), RSum(Tail(s)))

\* Go's int(f) on a float64: truncation toward zero
Trunc(r) == IF r[1] >= 0 THEN r[1] \div r[2] ELSE -((-r[1]) \div r[2])

\* Go's fmt.Sprint on an int
Sprint(n) == ToString(n)

\* Go's map lookup: the zero value for a missing key
MapGet(mp, k, zero) == IF k \in DOMAIN mp THEN mp[k] ELSE zero

\* the sequences that enumerate the set S once each (one map iteration order)
Perms(S) == {p \in [1..Cardinality(S) -> S] : \A e \in S : \E i \in DOMAIN p : p[i] = e}

RECURSIVE Flatten(_)
\* concatenation of a sequence of sequences
Flatten(ss) == IF ss = <<>> THEN <<>> ELSE Head(ss) \o Flatten(Tail(ss))

Range(s) == {s[i] : i \in DOMAIN s}

(***************************************************************************)
(* Domain model: item, dc, carrier, assignment and their identifiers.      *)
(***************************************************************************)
\* type item struct
item(id, quantity, volume) == [ItemID |-> id, Quantity |-> quantity, Volume |-> volume]

\* type dc struct; Inventory is a Go map from item identifier to int
dc(id, inventory, handling) ==
    [DCId |-> id, Inventory |-> inventory, HandlingCost |-> handling]

\* type carrier struct
carrier(d, c) == [DC |-> d, Carrier |-> c]

\* type assignment struct
assignment(it, d, c, q) == [Item |-> it, DC |-> d, Carrier |-> c, Quantity |-> q]

\* func (i carrier) ID()
carrierID(c) == c.DC.DCId \o "-" \o c.Carrier

\* func (i assignment) ID()
assignmentID(a) ==
    a.Item.ItemID \o "-" \o a.DC.DCId \o "-" \o a.Carrier \o "-" \o Sprint(a.Quantity)

(***************************************************************************)
(* Bounds of the inputs.                                                    *)
(***************************************************************************)
MaxQuantity == 2
MaxVolume == 2
MaxCapacity == 4

\* the upper bound of a carton-count variable, m.NewFloat(0.0, 1000.0)
CartonUpperBound == 1000

Half == <<1, 2>>

\* an empty Go map
EmptyMap == <<>>

\* a Go map with the keys K, all mapped to v
ConstMap(K, v) == [k \in K |-> v]

(***************************************************************************)
(* Inputs.  Five families; every input has pairwise distinct item and DC   *)
(* identifiers, non-negative quantities, volumes, capacities, inventories  *)
(* and costs, and a positive carton volume.                                *)
(***************************************************************************)
Quantities == {R(q) : q \in 0..MaxQuantity} \cup {<<3, 2>>}
Volumes == {R(0), R(1), R(MaxVolume)}
Capacities == {R(1), R(2), R(MaxCapacity)}
\* inventory of one item at one DC: no entry, or a count
Inventories(id) == {EmptyMap} \cup {ConstMap({id}, n) : n \in {1, MaxQuantity}}

\* which carriers each DC offers
Layouts ==
    { <<{"c1"}>>, <<{"c1"}, {"c1"}>>, <<{"c1", "c2"}>>, <<{"c1"}, {}>> }

DCIds == <<"d1", "d2">>
DefaultHandling == <<R(1), R(2)>>

\* the Go maps DC -> carrier -> value whose carriers are exactly the layout's
CarrierMaps(layout, values) ==
    { f \in [ {DCIds[d] : d \in DOMAIN layout} ->
                UNION {[cs -> values] : cs \in Range(layout)} ] :
        \A d \in DOMAIN layout : DOMAIN f[DCIds[d]] = layout[d] }

\* the Go maps DC -> carrier -> value in which a carrier of the layout may have no entry
PartialCarrierMaps(layout, values) ==
    { f \in [ {DCIds[d] : d \in DOMAIN layout} ->
                UNION {[cs -> values] : cs \in UNION {SUBSET l : l \in Range(layout)}} ] :
        \A d \in DOMAIN layout : DOMAIN f[DCIds[d]] \subseteq layout[d] }

\* type input struct (WeightCapacity is read by nothing)
MakeInput(items, layout, inv, handling, caps, costs, cv) ==
    [ Items |-> items,
      DCs |-> [d \in DOMAIN layout |-> dc(DCIds[d], inv[d], handling[d])],
      CarrierCapacities |-> caps,
      DeliveryCosts |-> costs,
      CartonVolume |-> cv ]

InputsOver(layout, itemSeqs, invs, handlings, capValues, costMaps, cvs) ==
    { MakeInput(items, layout, inv, handling, caps, costs, cv) :
        items \in itemSeqs, inv \in [DOMAIN layout -> invs], handling \in handlings,
        caps \in CarrierMaps(layout, capValues), costs \in costMaps, cv \in cvs }

\* one item, every layout: quantity, volume, capacities and inventories vary
SingleItemInputs ==
    UNION { InputsOver(layout,
                       {<<item("i1", q, v)>> : q \in Quantities, v \in Volumes},
                       Inventories("i1"), {DefaultHandling},
                       Capacities, CarrierMaps(layout, {Half}), {R(2)}) :
            layout \in Layouts }

\* two items that share the carriers of two DCs
TwoItemInputs ==
    InputsOver(<<{"c1"}, {"c1"}>>,
               { <<item("i1", R(q), R(1)), item("i2", R(1), R(v))>> :
                    q \in {1, MaxQuantity}, v \in {1, MaxVolume} },
               { [i1 |-> n, i2 |-> 1] : n \in {1, MaxQuantity} }
                    \cup { [i1 |-> MaxQuantity] },
               {DefaultHandling}, Capacities,
               CarrierMaps(<<{"c1"}, {"c1"}>>, {Half}), {R(2)})

\* two DCs with enough capacity and inventory: the costs vary, and a carrier may
\* have no delivery-cost entry
CostInputs ==
    InputsOver(<<{"c1"}, {"c1"}>>,
               {<<item("i1", R(q), R(1))>> : q \in {1, MaxQuantity}},
               {[i1 |-> MaxQuantity]},
               {<<R(h1), R(h2)>> : h1 \in 1..2, h2 \in 1..2},
               {R(MaxCapacity)},
               PartialCarrierMaps(<<{"c1"}, {"c1"}>>, {Half, R(2)}), {R(1), R(10)})
    \cup
    InputsOver(<<{"c1", "c2"}, {"c1"}>>,
               {<<item("i1", R(1), R(1))>>},
               {[i1 |-> MaxQuantity]},
               {<<R(1), R(2)>>, <<R(2), R(1)>>},
               {R(MaxCapacity)},
               PartialCarrierMaps(<<{"c1", "c2"}, {"c1"}>>, {Half, R(2)}), {R(10)})

\* Scenario A of the specification
ScenarioA ==
    MakeInput(<<item("i1", R(3), R(2))>>, <<{"c1"}>>, <<[i1 |-> 5]>>, <<R(1)>>,
              [d1 |-> [c1 |-> R(100)]], [d1 |-> [c1 |-> Half]], R(10))

\* one unit of one bulky item at one DC with one carrier of ample capacity: the
\* item's volume is CartonUpperBound carton volumes, or one more
LargeVolumeInputs ==
    InputsOver(<<{"c1"}>>,
               {<<item("i1", R(1), R(v))>> : v \in {CartonUpperBound, CartonUpperBound + 1}},
               {[i1 |-> 1]}, {<<R(1)>>},
               {R(2 * CartonUpperBound)}, CarrierMaps(<<{"c1"}>>, {Half}), {R(1)})

(***************************************************************************)
(* Assignment generation (solver, create assignments / helping structures). *)
(***************************************************************************)
\* the keys of input.CarrierCapacities[dc.DCId]; a missing DC is a nil map
OfferedCarriers(in, d) == DOMAIN MapGet(in.CarrierCapacities, d.DCId, EmptyMap)

\* a unit loop that stores the loop counter q instead of q+1
UnitAssignmentsFromZero(it, d, c) ==
    [q \in 1..Trunc(it.Quantity) |-> assignment(it, d, c, q - 1)]

\* for q := 0; q < int(it.Quantity); q++ { ... Quantity: q+1 }
UnitAssignments(it, d, c) ==
    [q \in 1..Trunc(it.Quantity) |-> assignment(it, d, c, q)]

\* one iteration order of the carrier map per (item, DC) execution of the range loop
AssignmentOrders(in) ==
    { ord \in [DOMAIN in.Items ->
                 [DOMAIN in.DCs ->
                    UNION {Perms(OfferedCarriers(in, in.DCs[d])) : d \in DOMAIN in.DCs}]] :
        \A i \in DOMAIN in.Items : \A d \in DOMAIN in.DCs :
            ord[i][d] \in Perms(OfferedCarriers(in, in.DCs[d])) }

\* the nested loops over items, DCs, carriers and unit counts
GenerateAssignments(in, ord) ==
    Flatten([i \in DOMAIN in.Items |->
        Flatten([d \in DOMAIN in.DCs |->
            Flatten([k \in DOMAIN ord[i][d] |->
                UnitAssignments(in.Items[i], in.DCs[d], ord[i][d][k])])])])

\* one iteration order of the carrier map per DC
CombinationOrders(in) ==
    { ord \in [DOMAIN in.DCs ->
                 UNION {Perms(OfferedCarriers(in, in.DCs[d])) : d \in DOMAIN in.DCs}] :
        \A d \in DOMAIN in.DCs : ord[d] \in Perms(OfferedCarriers(in, in.DCs[d])) }

\* dcCarrierCombinations
GenerateCombinations(in, ord) ==
    Flatten([d \in DOMAIN in.DCs |->
        [k \in DOMAIN ord[d] |-> carrier(in.DCs[d], ord[d][k])]])

\* itemToAssignments: item identifier -> its assignments, in generation order
itemToAssignments(as) ==
    [id \in {as[k].Item.ItemID : k \in DOMAIN as} |->
        SelectSeq(as, LAMBDA a : a.Item.ItemID = id)]

\* dcToCarrierToAssignments: DC identifier -> carrier -> its assignments
dcToCarrierToAssignments(as) ==
    [d \in {as[k].DC.DCId : k \in DOMAIN as} |->
        [c \in {as[k].Carrier : k \in {j \in DOMAIN as : as[j].DC.DCId = d}} |->
            SelectSeq(as, LAMBDA a : a.DC.DCId = d /\ a.Carrier = c)]]

(***************************************************************************)
(* The MIP model m.                                                        *)
(***************************************************************************)
\* x.Get(a): the binary variable of the multimap x, keyed by the assignment's ID
xGet(a) == <<"x", assignmentID(a)>>

\* cartons.Get(c): the continuous variable of the multimap cartons, keyed by ID
cartonsGet(c) == <<"cartons", carrierID(c)>>

NewConstraint(sense, rhs, terms) == [sense |-> sense, rhs |-> rhs, terms |-> terms]
NewTerm(coef, var) == [coef |-> coef, var |-> var]

\* a fulfilment constraint that lets an item be served in part
FulfilmentAtMost(in, as) ==
    [i \in DOMAIN in.Items |->
        LET list == MapGet(itemToAssignments(as), in.Items[i].ItemID, <<>>)
        IN  NewConstraint("LessThanOrEqual", in.Items[i].Quantity,
                [k \in DOMAIN list |-> NewTerm(R(list[k].Quantity), xGet(list[k]))])]

\* Fulfilment constraint: one per item, over itemToAssignments[i.ItemID]
FulfilmentConstraints(in, as) ==
    [i \in DOMAIN in.Items |->
        LET list == MapGet(itemToAssignments(as), in.Items[i].ItemID, <<>>)
        IN  NewConstraint("Equal", in.Items[i].Quantity,
                [k \in DOMAIN list |-> NewTerm(R(list[k].Quantity), xGet(list[k]))])]

\* a carrier constraint that counts assignments instead of their volume
CarrierByCount(in, as) ==
    LET idx == dcToCarrierToAssignments(as)
    IN  [p \in UNION {{<<d, c>> : c \in DOMAIN idx[d]} : d \in DOMAIN idx} |->
            LET list == idx[p[1]][p[2]]
            IN  NewConstraint("LessThanOrEqual",
                    MapGet(MapGet(in.CarrierCapacities, p[1], EmptyMap), p[2], R(0)),
                    [k \in DOMAIN list |-> NewTerm(R(1), xGet(list[k]))])]

\* Carrier capacity constraint: one per entry of dcToCarrierToAssignments
CarrierConstraints(in, as) ==
    LET idx == dcToCarrierToAssignments(as)
    IN  [p \in UNION {{<<d, c>> : c \in DOMAIN idx[d]} : d \in DOMAIN idx} |->
            LET list == idx[p[1]][p[2]]
            IN  NewConstraint("LessThanOrEqual",
                    MapGet(MapGet(in.CarrierCapacities, p[1], EmptyMap), p[2], R(0)),
                    [k \in DOMAIN list |->
                        NewTerm(RMul(list[k].Item.Volume, list[k].Item.Quantity),
                                xGet(list[k]))])]

\* an inventory constraint that counts assignments instead of their units
InventoryByCount(in, as) ==
    [p \in (DOMAIN in.Items) \X (DOMAIN in.DCs) |->
        LET i == in.Items[p[1]]
            d == in.DCs[p[2]]
            list == SelectSeq(MapGet(itemToAssignments(as), i.ItemID, <<>>),
                              LAMBDA a : a.DC.DCId = d.DCId)
        IN  NewConstraint("LessThanOrEqual", R(MapGet(d.Inventory, i.ItemID, 0)),
                [k \in DOMAIN list |-> NewTerm(R(1), xGet(list[k]))])]

\* Inventory constraint: one per (item, DC), over the item's assignments at the DC
InventoryConstraints(in, as) ==
    [p \in (DOMAIN in.Items) \X (DOMAIN in.DCs) |->
        LET i == in.Items[p[1]]
            d == in.DCs[p[2]]
            list == SelectSeq(MapGet(itemToAssignments(as), i.ItemID, <<>>),
                              LAMBDA a : a.DC.DCId = d.DCId)
        IN  NewConstraint("LessThanOrEqual", R(MapGet(d.Inventory, i.ItemID, 0)),
                [k \in DOMAIN list |-> NewTerm(R(list[k].Quantity), xGet(list[k]))])]

\* a carton computation that forgets to divide by the carton volume
CartonsUndivided(in, as, combos) ==
    [n \in DOMAIN combos |->
        LET list == SelectSeq(as, LAMBDA a : a.DC.DCId = combos[n].DC.DCId
                                             /\ a.Carrier = combos[n].Carrier)
        IN  NewConstraint("Equal", R(0),
                <<NewTerm(R(-1), cartonsGet(combos[n]))>> \o
                [k \in DOMAIN list |->
                    NewTerm(RMul(list[k].Item.Volume, R(list[k].Quantity)),
                            xGet(list[k]))])]

\* carton computation: one equality per (DC, carrier) combination
CartonConstraints(in, as, combos) ==
    [n \in DOMAIN combos |->
        LET list == SelectSeq(as, LAMBDA a : a.DC.DCId = combos[n].DC.DCId
                                             /\ a.Carrier = combos[n].Carrier)
        IN  NewConstraint("Equal", R(0),
                <<NewTerm(R(-1), cartonsGet(combos[n]))>> \o
                [k \in DOMAIN list |->
                    NewTerm(RDiv(RMul(RMul(list[k].Item.Volume, R(list[k].Quantity)), R(1)),
                                 in.CartonVolume),
                            xGet(list[k]))])]

\* an objective that leaves the handling costs out
DeliveryCostsOnly(in, combos) ==
    [n \in DOMAIN combos |->
        NewTerm(MapGet(MapGet(in.DeliveryCosts, combos[n].DC.DCId, EmptyMap),
                       combos[n].Carrier, R(0)),
                cartonsGet(combos[n]))]

\* objective function: delivery costs and handling costs per carton
ObjectiveTerms(in, combos) ==
    Flatten([n \in DOMAIN combos |->
        << NewTerm(MapGet(MapGet(in.DeliveryCosts, combos[n].DC.DCId, EmptyMap),
                          combos[n].Carrier, R(0)),
                   cartonsGet(combos[n])),
           NewTerm(combos[n].DC.HandlingCost, cartonsGet(combos[n])) >>])

\* the model after the construction code of solver has run
BuildModel(in, as, combos) ==
    [ bools |-> {xGet(as[k]) : k \in DOMAIN as},
      floats |-> {cartonsGet(combos[n]) : n \in DOMAIN combos},
      lower |-> R(0),
      upper |-> R(CartonUpperBound),
      fulfilment |-> FulfilmentConstraints(in, as),
      carrier |-> CarrierConstraints(in, as),
      inventory |-> InventoryConstraints(in, as),
      carton |-> CartonConstraints(in, as, combos),
      objective |-> ObjectiveTerms(in, combos) ]

\* mip.NewModel(): no variables, no constraints
NewModel ==
    [ bools |-> {}, floats |-> {}, lower |-> R(0), upper |-> R(CartonUpperBound),
      fulfilment |-> <<>>, carrier |-> <<>>, inventory |-> <<>>, carton |-> <<>>,
      objective |-> <<>> ]

(***************************************************************************)
(* The external solver, by its contract: a point of m is a value for every *)
(* variable; a feasible point satisfies every constraint and bound.        *)
(***************************************************************************)
AllConstraints(mm) ==
    Range(mm.fulfilment) \cup Range(mm.carrier) \cup Range(mm.inventory)
        \cup Range(mm.carton)

\* the left-hand side of a constraint (or the objective) at a point
TermSum(terms, val) ==
    RSum([k \in DOMAIN terms |-> RMul(terms[k].coef, val[terms[k].var])])

Holds(c, val) ==
    IF c.sense = "Equal" THEN REq(TermSum(c.terms, val), c.rhs)
    ELSE RLe(TermSum(c.terms, val), c.rhs)

\* the value an equality constraint forces on the continuous variable f, given
\* the binary values b
Forced(c, f, b) ==
    LET own == SelectSeq(c.terms, LAMBDA t : t.var = f)
        rest == SelectSeq(c.terms, LAMBDA t : t.var # f)
        coef == RSum([k \in DOMAIN own |-> own[k].coef])
    IN  RDiv(RAdd(c.rhs, RNeg(TermSum(rest, b))), coef)

\* the point of m with the binary values b: each continuous variable takes the
\* value its linking equality forces
PointOf(mm, b) ==
    [v \in mm.bools \cup mm.floats |->
        IF v \in mm.bools THEN b[v]
        ELSE Forced(CHOOSE c \in Range(mm.carton) :
                        \E k \in DOMAIN c.terms : c.terms[k].var = v, v, b)]

\* the points of m: every 0/1 choice of the binary variables
Points(mm) == {PointOf(mm, b) : b \in [mm.bools -> {R(0), R(1)}]}

WithinBounds(mm, val) ==
    \A f \in mm.floats : RLe(mm.lower, val[f]) /\ RLe(val[f], mm.upper)

Feasible(mm) ==
    { val \in Points(mm) :
        /\ \A c \in AllConstraints(mm) : Holds(c, val)
        /\ WithinBounds(mm, val) }

Objective(mm, val) == TermSum(mm.objective, val)

\* the objective maximized instead
Maximal(mm, feasible) ==
    { val \in feasible : \A w \in feasible : RLe(Objective(mm, w), Objective(mm, val)) }

\* m.Objective().SetMinimize(): the feasible points no feasible point beats
Minimal(mm, feasible) ==
    { val \in feasible : \A w \in feasible : RLe(Objective(mm, val), Objective(mm, w)) }

\* mip.Solution, as format reads it
Solution(hasValues, isOptimal, values, objective) ==
    [ HasValues |-> hasValues, IsOptimal |-> isOptimal, Values |-> values,
      ObjectiveValue |-> objective ]
NoValues == Solution(FALSE, FALSE, <<>>, R(0))

\* solver.Solve(solveOptions) when it returns no error, as <<limit hit, solution>>.
\* A run that ends within the duration limit (relative gap 0) proves optimality
\* or infeasibility; a run that hits the limit returns its incumbent, if it has
\* one, uncertified.
Solutions(mm) ==
    LET feasible == Feasible(mm)
    IN  {<<TRUE, NoValues>>}
        \cup {<<TRUE, Solution(TRUE, FALSE, val, Objective(mm, val))>> : val \in feasible}
        \cup (IF feasible = {} THEN {<<FALSE, NoValues>>}
              ELSE {<<FALSE, Solution(TRUE, TRUE, val, Objective(mm, val))>> :
                        val \in Minimal(mm, feasible)})

(***************************************************************************)
(* format: the Output record.                                              *)
(***************************************************************************)
\* type Output struct (Runtime, a formatted duration, is left out)
Output(status, value, as, cartons) ==
    [Status |-> status, Value |-> value, Assignments |-> as, Cartons |-> cartons]

\* the key of output.Cartons
CartonsKey(c) == c.DC.DCId \o "-" \o c.Carrier

\* for _, dc := range dcs { output.Cartons[key] = solution.Value(cartons.Get(dc)) }
CartonsMap(sol, combos) ==
    [key \in {CartonsKey(combos[n]) : n \in DOMAIN combos} |->
        LET last == CHOOSE n \in DOMAIN combos :
                        /\ CartonsKey(combos[n]) = key
                        /\ \A j \in DOMAIN combos : CartonsKey(combos[j]) = key => j <= n
        IN  sol.Values[cartonsGet(combos[last])]]

\* the assignments whose binary variable's value exceeds 0.5
Selected(sol, as) == SelectSeq(as, LAMBDA a : RLt(Half, sol.Values[xGet(a)]))

\* a status that does not ask whether the solution is optimal
StatusOptimalIfValues(sol) == IF sol.HasValues THEN "optimal" ELSE "infeasible"

\* output.Status
Status(sol) ==
    IF sol.HasValues THEN (IF sol.IsOptimal THEN "optimal" ELSE "suboptimal")
    ELSE "infeasible"

\* format's two results: the output and the error
format(sol, as, combos) ==
    IF sol.HasValues
    THEN [ output |-> Output(Status(sol), sol.ObjectiveValue, Selected(sol, as),
                             CartonsMap(sol, combos)),
           err |-> "" ]
    ELSE [ output |-> Output(Status(sol), R(0), <<>>, EmptyMap),
           err |-> "no solution found" ]

\* what solver returns: ([]Output, error)
Return(outputs, err) == [outputs |-> outputs, err |-> err]

\* the return statements after format: the output is returned only without an error
ReturnFormatted(f) ==
    IF f.err # "" THEN Return(<<>>, f.err) ELSE Return(<<f.output>>, "")

VARIABLES input, pc, assignments, dcCarrierCombinations, m, limitHit, solution,
          formatted, result, solveCalls, formatCalls
vars == <<input, pc, assignments, dcCarrierCombinations, m, limitHit, solution,
          formatted, result, solveCalls, formatCalls>>

Init ==
    /\ \/ input \in CostInputs \cup {ScenarioA}
       \/ input \in SingleItemInputs \cup TwoItemInputs \cup LargeVolumeInputs
    /\ pc = "generate"
    /\ assignments = <<>>
    /\ dcCarrierCombinations = <<>>
    /\ m = NewModel
    /\ limitHit = FALSE
    /\ solution = NoValues
    /\ formatted = [output |-> Output("", R(0), <<>>, EmptyMap), err |-> ""]
    /\ result = Return(<<>>, "")
    /\ solveCalls = 0
    /\ formatCalls = 0

\* solver, lines 115-143: the assignments and the (DC, carrier) combinations
Generate ==
    /\ pc = "generate"
    /\ \E ord \in AssignmentOrders(input) :
            assignments' = GenerateAssignments(input, ord)
    /\ \E ord \in CombinationOrders(input) :
            dcCarrierCombinations' = GenerateCombinations(input, ord)
    /\ pc' = "build"
    /\ UNCHANGED <<input, m, limitHit, solution, formatted, result, solveCalls,
                   formatCalls>>

\* solver, lines 145-250: the indexes, variables, constraints and objective
Build ==
    /\ pc = "build"
    /\ m' = BuildModel(input, assignments, dcCarrierCombinations)
    /\ pc' = "newSolver"
    /\ UNCHANGED <<input, assignments, dcCarrierCombinations, limitHit, solution,
                   formatted, result, solveCalls, formatCalls>>

\* a configuration step that returns an error: solver returns (nil, err)
Fail(err) ==
    /\ result' = Return(<<>>, err)
    /\ pc' = "done"
    /\ UNCHANGED <<input, assignments, dcCarrierCombinations, m, limitHit, solution,
                   formatted, solveCalls, formatCalls>>

Proceed(next) ==
    /\ pc' = next
    /\ UNCHANGED <<input, assignments, dcCarrierCombinations, m, limitHit, solution,
                   formatted, result, solveCalls, formatCalls>>

\* mip.NewSolver("highs", m)
NewSolver ==
    /\ pc = "newSolver"
    /\ \/ Proceed("setDuration")
       \/ Fail("new solver")

\* solveOptions.SetMaximumDuration(opts.Limits.Duration)
SetMaximumDuration ==
    /\ pc = "setDuration"
    /\ \/ Proceed("setGap")
       \/ Fail("maximum duration")

\* solveOptions.SetMIPGapRelative(0)
SetMIPGapRelative ==
    /\ pc = "setGap"
    /\ \/ Proceed("solve")
       \/ Fail("relative gap")

\* solver.Solve(solveOptions) returns a solution
SolveOk ==
    /\ pc = "solve"
    /\ solveCalls' = solveCalls + 1
    /\ \E s \in Solutions(m) :
        /\ limitHit' = s[1]
        /\ solution' = s[2]
    /\ pc' = "format"
    /\ UNCHANGED <<input, assignments, dcCarrierCombinations, m, formatted, result,
                   formatCalls>>

\* a failed Solve that is tried once more
SolveRetried ==
    /\ pc = "solve"
    /\ solveCalls < 2
    /\ solveCalls' = solveCalls + 1
    /\ pc' = "solve"
    /\ UNCHANGED <<input, assignments, dcCarrierCombinations, m, limitHit, solution,
                   formatted, result, formatCalls>>

\* solver.Solve(solveOptions) returns an error: solver returns (nil, err)
SolveErr ==
    /\ pc = "solve"
    /\ solveCalls' = solveCalls + 1
    /\ result' = Return(<<>>, "solve")
    /\ pc' = "done"
    /\ UNCHANGED <<input, assignments, dcCarrierCombinations, m, limitHit, solution,
                   formatted, formatCalls>>

\* format(solution, input, x, assignments, dcCarrierCombinations, cartons)
Format ==
    /\ pc = "format"
    /\ formatCalls' = formatCalls + 1
    /\ formatted' = format(solution, assignments, dcCarrierCombinations)
    /\ pc' = "return"
    /\ UNCHANGED <<input, assignments, dcCarrierCombinations, m, limitHit, solution,
                   result, solveCalls>>

\* solver, lines 280-284
ReturnOutput ==
    /\ pc = "return"
    /\ result' = ReturnFormatted(formatted)
    /\ pc' = "done"
    /\ UNCHANGED <<input, assignments, dcCarrierCombinations, m, limitHit, solution,
                   formatted, solveCalls, formatCalls>>

Next ==
    \/ Generate
    \/ Build
    \/ NewSolver
    \/ SetMaximumDuration
    \/ SetMIPGapRelative
    \/ SolveOk
    \/ SolveErr
    \/ Format
    \/ ReturnOutput

Spec == Init /\ [][Next]_vars

(***************************************************************************)
(* What the claims speak of.                                               *)
(***************************************************************************)
\* solver has returned an output, and its status tells of a solution
Returned == pc = "done" /\ result.outputs # <<>>
Out == result.outputs[1]
Solved == Returned /\ Out.Status \in {"optimal", "suboptimal"}

\* the selected assignments of the output that satisfy P
SelectedWhere(P(_)) == SelectSeq(Out.Assignments, P)

RECURSIVE SumQuantity(_)
\* the sum of the Quantity fields of a sequence of assignments
SumQuantity(as) == IF as = <<>> THEN 0 ELSE Head(as).Quantity + SumQuantity(Tail(as))

RECURSIVE SumVolume(_)
\* the volume of a sequence of assignments: item volume x assignment Quantity
SumVolume(as) ==
    IF as = <<>> THEN R(0)
    ELSE RAdd(RMul(Head(as).Item.Volume, R(Head(as).Quantity)), SumVolume(Tail(as)))

\* the offered (DC, carrier) pairs of the input, as <<DC index, carrier>>
OfferedPairs ==
    UNION {{<<d, c>> : c \in OfferedCarriers(input, input.DCs[d])} : d \in DOMAIN input.DCs}

AtPair(p) == SelectedWhere(LAMBDA a : a.DC.DCId = input.DCs[p[1]].DCId /\ a.Carrier = p[2])

Capacity(p) ==
    MapGet(MapGet(input.CarrierCapacities, input.DCs[p[1]].DCId, EmptyMap), p[2], R(0))

DistinctItemIDs ==
    \A i, j \in DOMAIN input.Items : input.Items[i].ItemID = input.Items[j].ItemID => i = j

IsNat(r) == r[1] >= 0 /\ r[1] % r[2] = 0

(***************************************************************************)
(* C1: whenever solver returns an output with status "optimal" or          *)
(* "suboptimal", for every input item (identifiers pairwise distinct,      *)
(* quantity a non-negative integer) the Quantity fields of the selected    *)
(* assignments of that item add up to the item's requested quantity.       *)
(***************************************************************************)
C1_FulfilmentExact ==
    (Solved /\ DistinctItemIDs) =>
        \A i \in DOMAIN input.Items :
            IsNat(input.Items[i].Quantity) =>
                R(SumQuantity(SelectedWhere(
                      LAMBDA a : a.Item.ItemID = input.Items[i].ItemID)))
                    = RNorm(input.Items[i].Quantity)

\* an item of quantity 2 served by two selected assignments at different places
C1_Witness ==
    /\ Solved
    /\ \E i \in DOMAIN input.Items :
        /\ input.Items[i].Quantity = R(2)
        /\ Len(SelectedWhere(LAMBDA a : a.Item.ItemID = input.Items[i].ItemID)) = 2

(***************************************************************************)
(* C3: whenever solver returns an output with status "optimal" or          *)
(* "suboptimal", the volume of the selected assignments at every (DC,      *)
(* carrier) pair is at most the capacity the input declares for the pair.  *)
(***************************************************************************)
C3_VolumeWithinCapacity ==
    Solved => \A p \in OfferedPairs : RLe(SumVolume(AtPair(p)), Capacity(p))

\* a pair filled to its capacity, next to a second pair that is used too
C3_Witness ==
    /\ Solved
    /\ \E p, r \in OfferedPairs :
        /\ p # r
        /\ AtPair(p) # <<>>
        /\ AtPair(r) # <<>>
        /\ REq(SumVolume(AtPair(p)), Capacity(p))

(***************************************************************************)
(* C4: whenever solver returns an output with status "optimal" or          *)
(* "suboptimal", for every (item, DC) the Quantity fields of the selected  *)
(* assignments of the item at the DC, over all carriers of the DC, add up  *)
(* to at most the DC's inventory of the item; no entry counts as 0.        *)
(***************************************************************************)
C4_QuantityWithinInventory ==
    Solved =>
        \A i \in DOMAIN input.Items : \A d \in DOMAIN input.DCs :
            SumQuantity(SelectedWhere(
                LAMBDA a : a.Item.ItemID = input.Items[i].ItemID
                           /\ a.DC.DCId = input.DCs[d].DCId))
              <= MapGet(input.DCs[d].Inventory, input.Items[i].ItemID, 0)

\* an item served through two carriers of one DC, up to the DC's inventory
C4_Witness ==
    /\ Solved
    /\ \E i \in DOMAIN input.Items : \E d \in DOMAIN input.DCs :
        LET here == SelectedWhere(
                        LAMBDA a : a.Item.ItemID = input.Items[i].ItemID
                                   /\ a.DC.DCId = input.DCs[d].DCId)
        IN  /\ Len(here) = 2
            /\ here[1].Carrier # here[2].Carrier
            /\ SumQuantity(here) = MapGet(input.DCs[d].Inventory, input.Items[i].ItemID, 0)

PairKey(p) == input.DCs[p[1]].DCId \o "-" \o p[2]

(***************************************************************************)
(* C5: whenever solver returns an output with status "optimal" or          *)
(* "suboptimal", Cartons has an entry for every offered (DC, carrier)      *)
(* pair, and the entry is the volume of the selected assignments at the    *)
(* pair divided by the carton volume; 0 for a pair nothing is assigned to. *)
(***************************************************************************)
C5_CartonsAreVolumeOverCartonVolume ==
    Solved =>
        /\ DOMAIN Out.Cartons = {PairKey(p) : p \in OfferedPairs}
        /\ \A p \in OfferedPairs :
            /\ REq(Out.Cartons[PairKey(p)], RDiv(SumVolume(AtPair(p)), input.CartonVolume))
            /\ AtPair(p) = <<>> => REq(Out.Cartons[PairKey(p)], R(0))

\* one pair with a fractional carton count, another with nothing assigned
C5_Witness ==
    /\ Solved
    /\ \E p, r \in OfferedPairs :
        /\ AtPair(r) = <<>>
        /\ Out.Cartons[PairKey(r)] = R(0)
        /\ Out.Cartons[PairKey(p)] = <<1, 2>>

\* the assignments with the indices sel
Chosen(sel) == SelectSeq(assignments, LAMBDA a : \E k \in sel : assignments[k] = a)

\* fulfilment, inventory and capacity as the claim states them
AcceptedByClaim(sel) ==
    /\ \A i \in DOMAIN input.Items :
        REq(R(SumQuantity(SelectSeq(Chosen(sel),
                LAMBDA a : a.Item.ItemID = input.Items[i].ItemID))),
            input.Items[i].Quantity)
    /\ \A i \in DOMAIN input.Items : \A d \in DOMAIN input.DCs :
        SumQuantity(SelectSeq(Chosen(sel),
                LAMBDA a : a.Item.ItemID = input.Items[i].ItemID
                           /\ a.DC.DCId = input.DCs[d].DCId))
          <= MapGet(input.DCs[d].Inventory, input.Items[i].ItemID, 0)
    /\ \A p \in OfferedPairs :
        RLe(SumVolume(SelectSeq(Chosen(sel),
                LAMBDA a : a.DC.DCId = input.DCs[p[1]].DCId /\ a.Carrier = p[2])),
            Capacity(p))

\* the point of m that selects exactly the assignments with the indices sel
PointSelecting(sel) ==
    PointOf(m, [v \in m.bools |->
                   IF \E k \in sel : xGet(assignments[k]) = v THEN R(1) ELSE R(0)])

AcceptedByModel(sel) ==
    /\ \A c \in AllConstraints(m) : Holds(c, PointSelecting(sel))
    /\ WithinBounds(m, PointSelecting(sel))

(***************************************************************************)
(* C2: the carrier-capacity constraint of a (DC, carrier) pair weighs each *)
(* assignment with item volume x the assignment's unit count, its right-   *)
(* hand side is the declared capacity, and so every selection that         *)
(* satisfies fulfilment, inventory and (assigned volume <= capacity) is a  *)
(* feasible point of the model, also when it splits an item.               *)
(***************************************************************************)
C2_CapacityWeighsAssignedVolume ==
    pc = "newSolver" =>
        /\ \A p \in DOMAIN m.carrier :
            LET list == dcToCarrierToAssignments(assignments)[p[1]][p[2]]
            IN  /\ m.carrier[p].sense = "LessThanOrEqual"
                /\ \A k \in DOMAIN list :
                     REq(m.carrier[p].terms[k].coef,
                         RMul(list[k].Item.Volume, R(list[k].Quantity)))
        /\ \A sel \in SUBSET DOMAIN assignments :
            AcceptedByClaim(sel) => AcceptedByModel(sel)

DeliveryCost(p) ==
    MapGet(MapGet(input.DeliveryCosts, input.DCs[p[1]].DCId, EmptyMap), p[2], R(0))

PairCost(p) ==
    RAdd(RMul(DeliveryCost(p), Out.Cartons[PairKey(p)]),
         RMul(input.DCs[p[1]].HandlingCost, Out.Cartons[PairKey(p)]))

RECURSIVE SumPairCost(_)
\* the sum of PairCost over the pairs S
SumPairCost(S) ==
    IF S = {} THEN R(0)
    ELSE LET p == CHOOSE x \in S : TRUE IN RAdd(PairCost(p), SumPairCost(S \ {p}))

(***************************************************************************)
(* C6: whenever solver returns an output with status "optimal" or          *)
(* "suboptimal", Value is the sum over the (DC, carrier) pairs of          *)
(* delivery cost x carton count + handling cost x carton count, with the   *)
(* carton counts of the output and the costs of the input (no delivery-    *)
(* cost entry: 0).  For Scenario A a solve that ends within its limit      *)
(* gives status optimal, carton count 0.6 and value 0.9.                   *)
(***************************************************************************)
C6_ValueIsCostOfCartons ==
    /\ Solved => REq(Out.Value, SumPairCost(OfferedPairs))
    /\ (input = ScenarioA /\ pc = "done" /\ solveCalls = 1 /\ result.err # "solve"
            /\ ~limitHit) =>
        /\ Returned
        /\ Out.Status = "optimal"
        /\ REq(Out.Cartons["d1-c1"], <<6, 10>>)
        /\ REq(Out.Value, <<9, 10>>)
        /\ SumQuantity(Out.Assignments) = 3

\* Scenario A solved to optimality
C6_Witness ==
    /\ input = ScenarioA
    /\ Solved
    /\ Out.Status = "optimal"
    /\ REq(Out.Value, <<9, 10>>)

TwoDCsDifferInHandling ==
    /\ Len(input.DCs) = 2
    /\ ~REq(input.DCs[1].HandlingCost, input.DCs[2].HandlingCost)

CheaperDC == IF RLt(input.DCs[1].HandlingCost, input.DCs[2].HandlingCost) THEN 1 ELSE 2

\* the point val selects assignments of DC d only
OnlyAt(d, val) ==
    \A k \in DOMAIN assignments :
        val[xGet(assignments[k])] = R(1) => assignments[k].DC.DCId = input.DCs[d].DCId

\* capacity and inventory of each DC are enough to serve every item from it alone
SufficientAtBoth ==
    \A d \in {1, 2} : \E val \in Feasible(m) : OnlyAt(d, val)

\* the least cost of an assignment that uses only the cheaper-handling DC
CheaperOnlyCost ==
    LET costs == {Objective(m, val) : val \in {w \in Feasible(m) : OnlyAt(CheaperDC, w)}}
    IN  CHOOSE c \in costs : \A o \in costs : RLe(c, o)

AllAtCheaperDC ==
    /\ \A k \in DOMAIN Out.Assignments :
            Out.Assignments[k].DC.DCId = input.DCs[CheaperDC].DCId
    /\ REq(Out.Value, CheaperOnlyCost)

(***************************************************************************)
(* C7: with two DCs of different handling costs and enough carrier         *)
(* capacity and inventory at both for every item, an optimal result        *)
(* assigns all units to the DC with the lower handling cost and its value  *)
(* is the cost of the assignment that uses only that DC.                   *)
(***************************************************************************)
C7_CheaperHandlingWins ==
    (Returned /\ Out.Status = "optimal" /\ TwoDCsDifferInHandling /\ SufficientAtBoth)
        => AllAtCheaperDC

SameDeliveryCostEverywhere ==
    \A p, r \in OfferedPairs : REq(DeliveryCost(p), DeliveryCost(r))

PositiveVolumes == \A i \in DOMAIN input.Items : input.Items[i].Volume[1] > 0

(***************************************************************************)
(* C7, amended: with two DCs of different handling costs, the same         *)
(* delivery cost at every offered pair, items of positive volume and       *)
(* enough capacity and inventory at both DCs, an optimal result assigns    *)
(* all units to the DC with the lower handling cost and its value is the   *)
(* cost of the assignment that uses only that DC.                          *)
(***************************************************************************)
C7_CheaperHandlingWinsOtherCostsEqual ==
    (Returned /\ Out.Status = "optimal" /\ TwoDCsDifferInHandling
        /\ SameDeliveryCostEverywhere /\ PositiveVolumes /\ SufficientAtBoth)
        => AllAtCheaperDC

\* an optimal result that serves two units from the second, cheaper DC
C7_Witness ==
    /\ Returned /\ Out.Status = "optimal" /\ TwoDCsDifferInHandling
    /\ SameDeliveryCostEverywhere /\ PositiveVolumes /\ SufficientAtBoth
    /\ CheaperDC = 2
    /\ SumQuantity(Out.Assignments) = 2
    /\ AllAtCheaperDC

(***************************************************************************)
(* C8: the status format produces is a function of the solution handle:    *)
(* "optimal" iff it has values and is certified optimal, "suboptimal" iff  *)
(* it has values and is not certified (a solve that hit the duration limit *)
(* with an incumbent, returned without an error), "infeasible" iff it has  *)
(* no values; there is no other status.                                    *)
(***************************************************************************)
C8_StatusFromSolution ==
    (pc \in {"return", "done"} /\ formatCalls = 1) =>
        LET st == formatted.output.Status
        IN  /\ st \in {"optimal", "suboptimal", "infeasible"}
            /\ st = "optimal" <=> (solution.HasValues /\ solution.IsOptimal)
            /\ st = "suboptimal" <=> (solution.HasValues /\ ~solution.IsOptimal)
            /\ st = "infeasible" <=> ~solution.HasValues
            /\ (limitHit /\ solution.HasValues) =>
                /\ st = "suboptimal"
                /\ formatted.err = ""
                /\ pc = "done" => (result.err = "" /\ Returned /\ Out.Status = "suboptimal")

\* a solve that hit the limit with an incumbent, returned as "suboptimal"
C8_Witness ==
    /\ pc = "done"
    /\ limitHit
    /\ solution.HasValues
    /\ Returned
    /\ Out.Status = "suboptimal"
    /\ Out.Assignments # <<>>

(***************************************************************************)
(* C9: when the solver returns a solution without variable values, the     *)
(* caller of solver receives a failure signal together with a well-formed  *)
(* output record whose status is "infeasible".                             *)
(***************************************************************************)
C9_InfeasibleOutputReturned ==
    (pc = "done" /\ formatCalls = 1 /\ ~solution.HasValues) =>
        /\ result.err # ""
        /\ result.outputs # <<>>
        /\ result.outputs[1].Status = "infeasible"

ConfigErrors == {"new solver", "maximum duration", "relative gap"}

(***************************************************************************)
(* C10: an error of NewSolver, SetMaximumDuration or SetMIPGapRelative is  *)
(* returned with no output and without Solve being called; Solve is called *)
(* at most once per run, and its error is returned without a retry and     *)
(* without a call of format.                                               *)
(***************************************************************************)
C10_ErrorsReturnedWithoutRetry ==
    /\ solveCalls <= 1
    /\ formatCalls <= solveCalls
    /\ pc \in {"generate", "build", "newSolver", "setDuration", "setGap", "solve"}
        => (solveCalls = 0 /\ formatCalls = 0 /\ result = Return(<<>>, ""))
    /\ (pc = "done" /\ result.err \in ConfigErrors) =>
        (result.outputs = <<>> /\ solveCalls = 0 /\ formatCalls = 0)
    /\ (pc = "done" /\ result.err = "solve") =>
        (result.outputs = <<>> /\ solveCalls = 1 /\ formatCalls = 0)
    /\ (pc = "done" /\ solveCalls = 0) => result.err \in ConfigErrors

\* Solve failed: its error is what solver returned, after one call
C10_Witness ==
    /\ pc = "done"
    /\ result = Return(<<>>, "solve")
    /\ solveCalls = 1
    /\ formatCalls = 0

\* the tuples (item, DC, carrier, q) of the input: carrier a key of the DC's
\* capacity map, 1 <= q <= the item's quantity truncated to an integer
ExpectedUniverse ==
    UNION { UNION { UNION { { assignment(input.Items[i], input.DCs[d], c, q) :
                                q \in 1..Trunc(input.Items[i].Quantity) } :
                            c \in DOMAIN MapGet(input.CarrierCapacities,
                                                input.DCs[d].DCId, EmptyMap) } :
                    d \in DOMAIN input.DCs } :
            i \in DOMAIN input.Items }

RECURSIVE SumNat(_)
\* the sum of a sequence of numbers
SumNat(ns) == IF ns = <<>> THEN 0 ELSE Head(ns) + SumNat(Tail(ns))

\* sum over items and DCs of (number of carriers at the DC x truncated quantity)
ExpectedSize ==
    SumNat(Flatten([i \in DOMAIN input.Items |->
        [d \in DOMAIN input.DCs |->
            Cardinality(DOMAIN MapGet(input.CarrierCapacities, input.DCs[d].DCId, EmptyMap))
                * Trunc(input.Items[i].Quantity)]]))

(***************************************************************************)
(* C11: the generated assignments are exactly the tuples (item, DC,        *)
(* carrier, q) with carrier a key of the DC's capacity map and 1 <= q <=   *)
(* the truncated quantity, each once, whatever the iteration order of the  *)
(* carrier maps; an item of quantity 0 and a DC without carriers yield     *)
(* none, and there are sum(carriers at the DC x truncated quantity) many.  *)
(***************************************************************************)
C11_UniverseIsExact ==
    pc # "generate" =>
        /\ Range(assignments) = ExpectedUniverse
        /\ \A k, j \in DOMAIN assignments : assignments[k] = assignments[j] => k = j
        /\ Len(assignments) = ExpectedSize
        /\ \A k \in DOMAIN assignments :
            /\ Trunc(assignments[k].Item.Quantity) >= 1
            /\ assignments[k].Carrier \in
                 DOMAIN MapGet(input.CarrierCapacities, assignments[k].DC.DCId, EmptyMap)

\* two carriers visited as c2, c1, a quantity of 3/2 truncated to one unit
C11_Witness ==
    /\ pc = "build"
    /\ Len(input.Items) = 1
    /\ input.Items[1].Quantity = <<3, 2>>
    /\ Len(assignments) = 2
    /\ assignments[1].Carrier = "c2"
    /\ assignments[2].Carrier = "c1"
    /\ assignments[1].Quantity = 1

\* the selection sel satisfies the fulfilment, carrier-capacity and inventory
\* constraints of m
SatisfiesSelectionConstraints(sel) ==
    \A c \in Range(m.fulfilment) \cup Range(m.carrier) \cup Range(m.inventory) :
        Holds(c, PointSelecting(sel))

\* the volume of the assignments of sel at the pair of combination c, in cartons
CartonsNeeded(sel, c) ==
    RDiv(SumVolume(SelectSeq(Chosen(sel),
            LAMBDA a : a.DC.DCId = c.DC.DCId /\ a.Carrier = c.Carrier)),
         input.CartonVolume)

(***************************************************************************)
(* C12: the upper bound 1000 of the carton-count variables never binds:    *)
(* for every selection of assignments that satisfies the fulfilment,       *)
(* carrier-capacity and inventory constraints, every carton-count variable *)
(* takes the value (assigned volume at its pair / carton volume) within    *)
(* [0, 1000], so the model has a feasible point.                           *)
(***************************************************************************)
C12_CartonBoundNeverBinds ==
    pc = "newSolver" =>
        \A sel \in SUBSET DOMAIN assignments :
            SatisfiesSelectionConstraints(sel) =>
                /\ \A k \in DOMAIN dcCarrierCombinations :
                    LET cartons == PointSelecting(sel)[cartonsGet(dcCarrierCombinations[k])]
                    IN  /\ REq(cartons, CartonsNeeded(sel, dcCarrierCombinations[k]))
                        /\ RLe(R(0), cartons)
                        /\ RLe(cartons, R(CartonUpperBound))
                /\ Feasible(m) # {}

(***************************************************************************)
(* Identifiers that contain the separator "-".  One item is served from    *)
(* two DCs; the first DC offers any of the carriers "c" and "b-c", the     *)
(* second may offer "c".  Inventory and capacity are ample.                *)
(***************************************************************************)
DashDCIds == { <<"a", "a-b">>, <<"a", "b">> }

DashInput(ids, first, second, q) ==
    [ Items |-> <<item("i1", R(q), R(1))>>,
      DCs |-> [d \in DOMAIN ids |-> dc(ids[d], [i1 |-> MaxQuantity], R(d))],
      CarrierCapacities |->
          [id \in Range(ids) |->
              ConstMap(IF id = ids[1] THEN first ELSE second, R(MaxCapacity))],
      DeliveryCosts |->
          [id \in Range(ids) |-> ConstMap(IF id = ids[1] THEN first ELSE second, Half)],
      CartonVolume |-> R(2) ]

DashInputs ==
    { DashInput(ids, first, second, q) :
        ids \in DashDCIds, first \in SUBSET {"c", "b-c"}, second \in SUBSET {"c"},
        q \in {1, MaxQuantity} }

InitDash ==
    /\ input \in DashInputs
    /\ pc = "generate"
    /\ assignments = <<>>
    /\ dcCarrierCombinations = <<>>
    /\ m = NewModel
    /\ limitHit = FALSE
    /\ solution = NoValues
    /\ formatted = [output |-> Output("", R(0), <<>>, EmptyMap), err |-> ""]
    /\ result = Return(<<>>, "")
    /\ solveCalls = 0
    /\ formatCalls = 0

SpecDash == InitDash /\ [][Next]_vars

(***************************************************************************)
(* C13: the composite identifiers are injective for arbitrary strings: two *)
(* different generated assignments never have the same assignment ID, two  *)
(* different (DC, carrier) pairs never have the same carrier ID or the     *)
(* same key in the output's Cartons map; so the model has one binary       *)
(* variable per assignment and one carton variable per pair, and Cartons   *)
(* has as many entries as there are offered pairs.                         *)
(***************************************************************************)
C13_IdentifiersInjective ==
    /\ \A k, j \in DOMAIN assignments :
        assignmentID(assignments[k]) = assignmentID(assignments[j])
            => assignments[k] = assignments[j]
    /\ \A k, j \in DOMAIN dcCarrierCombinations :
        /\ carrierID(dcCarrierCombinations[k]) = carrierID(dcCarrierCombinations[j])
            => dcCarrierCombinations[k] = dcCarrierCombinations[j]
        /\ CartonsKey(dcCarrierCombinations[k]) = CartonsKey(dcCarrierCombinations[j])
            => dcCarrierCombinations[k] = dcCarrierCombinations[j]
    /\ pc \notin {"generate", "build"} =>
        /\ Cardinality(m.bools) = Len(assignments)
        /\ Cardinality(m.floats) = Len(dcCarrierCombinations)
    /\ Solved => Cardinality(DOMAIN Out.Cartons) = Cardinality(OfferedPairs)
====
